---- MODULE Spec2Model ----
(***************************************************************************)
(* Model of the Adzuna fetch pipeline of src/real_time_data_fetcher.py:    *)
(* main() -> AdzunaJobFetcher() -> fetch_ai_jobs() -> process_jobs_data()  *)
(* -> save_data().                                                         *)
(*                                                                         *)
(* Spec      : one run of main(); every HTTP request of fetch_ai_jobs is   *)
(*             one step whose outcome the environment chooses.             *)
(* BatchSpec : process_jobs_data applied to an arbitrary bounded batch of  *)
(*             raw postings.                                               *)
(***************************************************************************)
EXTENDS Integers, Sequences, FiniteSets, TLC

\* ------------------------------------------------------------------------
\* Bounds of the model
\* ------------------------------------------------------------------------
MaxBudget == 2      \* max_results is drawn from 0..MaxBudget
MaxPageLen == 2     \* a non-empty page carries 1..MaxPageLen postings
MaxBatch == 3       \* BatchSpec: a batch has 0..MaxBatch raw postings

\* ------------------------------------------------------------------------
\* Program constants
\* ------------------------------------------------------------------------
NumTerms == 8       \* len(search_terms)
MaxPages == 5       \* range(1, 6)
DescLimit == 500    \* description[:500]

Min(a, b) == IF a < b THEN a ELSE b

\* ------------------------------------------------------------------------
\* Strings are sequences of one-character strings.
\* ------------------------------------------------------------------------
Uppers ==
    <<"A", "B", "C", "D", "E", "F", "G", "H", "I", "J", "K", "L", "M", "N",
      "O", "P", "Q", "R", "S", "T", "U", "V", "W", "X", "Y", "Z">>
Lowers ==
    <<"a", "b", "c", "d", "e", "f", "g", "h", "i", "j", "k", "l", "m", "n",
      "o", "p", "q", "r", "s", "t", "u", "v", "w", "x", "y", "z">>
Digits == <<"0", "1", "2", "3", "4", "5", "6", "7", "8", "9">>

UpperSet == {Uppers[i] : i \in 1..26}
LowerSet == {Lowers[i] : i \in 1..26}
DigitSet == {Digits[i] : i \in 1..10}
ToLower == [c \in UpperSet |-> Lowers[CHOOSE i \in 1..26 : Uppers[i] = c]]
ToUpper == [c \in LowerSet |-> Uppers[CHOOSE i \in 1..26 : Lowers[i] = c]]
DigitValue == [c \in DigitSet |-> (CHOOSE i \in 1..10 : Digits[i] = c) - 1]

IsLetter(c) == c \in UpperSet \/ c \in LowerSet
IsDigit(c) == c \in DigitSet
IsSpace(c) == c \in {" ", "\n", "\t"}

LowerChar(c) == IF c \in UpperSet THEN ToLower[c] ELSE c
UpperChar(c) == IF c \in LowerSet THEN ToUpper[c] ELSE c

\* str.lower()
Lower(s) == SubSeq([i \in 1..Len(s) |-> LowerChar(s[i])], 1, Len(s))

\* str.title(): a letter that follows a non-letter is upper-cased, every
\* other letter lower-cased
TitleCase(s) ==
    SubSeq([i \in 1..Len(s) |->
               IF i = 1 \/ ~IsLetter(s[i - 1]) THEN UpperChar(s[i])
               ELSE LowerChar(s[i])], 1, Len(s))

\* sub in s
Contains(s, sub) ==
    \E i \in 1..(Len(s) - Len(sub) + 1) :
        /\ sub = <<>> \/ s[i] = sub[1]
        /\ \A j \in 2..Len(sub) : s[i + j - 1] = sub[j]

\* any(term in text for term in terms)
AnyIn(text, terms) == \E n \in 1..Len(terms) : Contains(text, terms[n])

\* sep.join(parts)
RECURSIVE Join(_, _)
Join(sep, parts) ==
    IF parts = <<>> THEN <<>>
    ELSE IF Len(parts) = 1 THEN parts[1]
    ELSE parts[1] \o sep \o Join(sep, Tail(parts))

RECURSIVE Concat(_)
Concat(parts) ==
    IF parts = <<>> THEN <<>> ELSE Head(parts) \o Concat(Tail(parts))

\* int(s) for a string of decimal digits
RECURSIVE ToInt(_)
ToInt(ds) ==
    IF ds = <<>> THEN 0
    ELSE 10 * ToInt(SubSeq(ds, 1, Len(ds) - 1)) + DigitValue[ds[Len(ds)]]

\* ------------------------------------------------------------------------
\* JSON values of a raw posting.  A value is tagged with its JSON kind:
\* "str", "null" (None), "list" (a JSON array) or "missing" (key absent).
\* Company names carry a string that is never looked into; titles and
\* descriptions carry a sequence of characters.
\* ------------------------------------------------------------------------
Str(s) == [k |-> "str", v |-> s]
Null == [k |-> "null", v |-> ""]
Missing == [k |-> "missing", v |-> ""]
ListOf(s) == [k |-> "list", v |-> s]

Text(cs) == [k |-> "str", v |-> cs]
NullText == [k |-> "null", v |-> <<>>]
MissingText == [k |-> "missing", v |-> <<>>]

\* A salary value: a number, or None (job.get of an absent or null field)
Num(n) == [k |-> "num", v |-> n]
NoNum == [k |-> "none", v |-> 0]

\* A raw posting: is_dict is FALSE for a JSON value that is not an object;
\* company is "missing", "null" or "dict", and display_name is the value
\* under company.display_name when company is a dict.
\* salary_min and salary_max are salary values (a number or None).
\* location is "missing", "null" or "dict", and location_name is the value
\* under location.display_name when location is a dict; created is the
\* value under created.
RawFull(t, c, dn, d, lo, hi, loc, ln, cr) ==
    [is_dict |-> TRUE, title |-> t, company |-> c, display_name |-> dn,
     description |-> d, salary_min |-> lo, salary_max |-> hi,
     location |-> loc, location_name |-> ln, created |-> cr]
RawWithSalary(t, c, dn, d, lo, hi) ==
    RawFull(t, c, dn, d, lo, hi, "missing", MissingText, MissingText)
Raw(t, c, dn, d) == RawWithSalary(t, c, dn, d, NoNum, NoNum)
NotADict ==
    [is_dict |-> FALSE, title |-> MissingText, company |-> "missing",
     display_name |-> Missing, description |-> MissingText,
     salary_min |-> NoNum, salary_max |-> NoNum,
     location |-> "missing", location_name |-> MissingText,
     created |-> MissingText]

\* titles
ML_Engineer == <<"M", "L", " ", "E", "n", "g", "i", "n", "e", "e", "r">>
Data_Scientist ==
    <<"D", "a", "t", "a", " ", "S", "c", "i", "e", "n", "t", "i", "s", "t">>
Unknown == <<"U", "n", "k", "n", "o", "w", "n">>

D1 == Text(<<"a">>)
D2 == Text(<<"b">>)

MLAcme1 == Raw(Text(ML_Engineer), "dict", Str("Acme"), D1)
MLAcme2 == Raw(Text(ML_Engineer), "dict", Str("Acme"), D2)
DSAcme == Raw(Text(Data_Scientist), "dict", Str("Acme"), D1)
MLGlobex == Raw(Text(ML_Engineer), "dict", Str("Globex"), D1)
Anonymous == Raw(MissingText, "missing", Missing, MissingText)
NullTitle == Raw(NullText, "dict", Str("Acme"), D1)
NullCompany == Raw(Text(ML_Engineer), "null", Missing, D1)
NullDescription == Raw(Text(ML_Engineer), "dict", Str("Acme"), NullText)
ListCompanyName == Raw(Text(ML_Engineer), "dict", ListOf("Acme"), D1)

\* Postings a batch is drawn from (BatchSpec) and a page is drawn from (Spec)
RawPostings ==
    {MLAcme1, MLAcme2, DSAcme, MLGlobex, Anonymous, NotADict, NullTitle,
     NullCompany, NullDescription, ListCompanyName}
PagePostings == {MLAcme1, MLAcme2, NotADict, ListCompanyName}

SeqsUpTo(S, n) == UNION {[1..m -> S] : m \in 0..n}
NonEmptySeqsUpTo(S, n) == UNION {[1..m -> S] : m \in 1..n}

\* ------------------------------------------------------------------------
\* NormalizeSpec: the postings one record is normalized from
\* ------------------------------------------------------------------------
MaxSegs == 2        \* a description is made of 0..MaxSegs segments

Senior_Data_Scientist ==
    <<"S", "e", "n", "i", "o", "r", " ", "D", "a", "t", "a", " ", "S", "c",
    "i", "e", "n", "t", "i", "s", "t">>
Principal_Team_Lead ==
    <<"P", "r", "i", "n", "c", "i", "p", "a", "l", " ", "T", "e", "a", "m",
    " ", "L", "e", "a", "d">>
Head_of_AI == <<"H", "e", "a", "d", " ", "o", "f", " ", "A", "I">>
Junior_Developer ==
    <<"J", "u", "n", "i", "o", "r", " ", "D", "e", "v", "e", "l", "o", "p",
    "e", "r">>

TitleValues ==
    {Text(ML_Engineer), Text(Senior_Data_Scientist), Text(Principal_Team_Lead),
     Text(Head_of_AI), Text(Junior_Developer), MissingText}

\* pieces of description text about salary
SalarySegments ==
    <<<<"£", "5", "0", ",", "0", "0", "0", " ", "-", " ", "£", "8", "0", ",",
    "0", "0", "0">>, <<"£", "6", "0", "K", " ", "-", " ", "£", "9", "0",
    "K">>, <<" ", "4", "5", "0", "0", "0", "-", "6", "5", "0", "0", "0">>,
    <<"£", "8", "0", ",", "0", "0", "0", " ", "-", " ", "£", "5", "0", ",",
    "0", "0", "0">>, <<"£", "0", "0", ",", "0", "0", "0", " ", "-", " ", "£",
    "7", "0", ",", "0", "0", "0">>, <<" ", "p", "e", "r", " ", "y", "e", "a",
    "r">>>>

\* pieces of description text with skill, category, level and work words
KeywordSegments ==
    <<<<" ", "P", "y", "t", "h", "o", "n", " ", "T", "e", "n", "s", "o", "r",
    "F", "l", "o", "w", " ", "P", "y", "T", "o", "r", "c", "h", " ", "p", "a",
    "n", "d", "a", "s">>, <<" ", "s", "q", "l", " ", "a", "w", "s", " ", "n",
    "u", "m", "p", "y", " ", "s", "c", "i", "k", "i", "t", "-", "l", "e", "a",
    "r", "n">>, <<" ", "r", "e", "m", "o", "t", "e">>, <<" ", "h", "y", "b",
    "r", "i", "d">>, <<" ", "o", "n", "-", "s", "i", "t", "e">>, <<" ", "r",
    "e", "s", "e", "a", "r", "c", "h">>, <<" ", "p", "r", "o", "d", "u", "c",
    "t", " ", "m", "a", "n", "a", "g", "e", "r">>, <<" ", "N", "L", "P">>,
    <<" ", "a", "n", "a", "l", "y", "t", "i", "c", "s">>, <<" ", "p", "r",
    "i", "n", "c", "i", "p", "a", "l">>, <<" ", "S", "r", ".", " ", "l", "e",
    "a", "d">>>>

\* upstream salary_min / salary_max
UpstreamSalaries ==
    {<<NoNum, NoNum>>, <<Num(40000), Num(60000)>>, <<Num(90000), Num(50000)>>,
     <<Num(40000), NoNum>>, <<Num(0), Num(60000)>>}

Range(seq) == {seq[i] : i \in 1..Len(seq)}
Descriptions(segments) ==
    {Concat(ss) : ss \in SeqsUpTo(Range(segments), MaxSegs)}

SalaryPostings ==
    {RawWithSalary(t, "dict", Str("Acme"), Text(d), s[1], s[2]) :
        t \in TitleValues, d \in Descriptions(SalarySegments),
        s \in UpstreamSalaries}
KeywordPostings ==
    {Raw(t, "dict", Str("Acme"), Text(d)) :
        t \in TitleValues, d \in Descriptions(KeywordSegments)}
RichPostings == SalaryPostings \cup KeywordPostings

\* ------------------------------------------------------------------------
\* extract_salary
\* ------------------------------------------------------------------------

\* truth value of a salary value: None and 0 are false
Truthy(x) == x.k = "num" /\ x.v # 0

NoAmount == [ok |-> FALSE, end |-> 0, val |-> 0]
NoRange == [ok |-> FALSE, min |-> 0, max |-> 0]

LitAt(text, i, c) == i >= 1 /\ i <= Len(text) /\ text[i] = c
DigitsAt(text, i, n) ==
    i >= 1 /\ i + n - 1 <= Len(text) /\ \A j \in i..(i + n - 1) : IsDigit(text[j])

\* \s* from position i: the position after the white space
RECURSIVE SkipSpaces(_, _)
SkipSpaces(text, i) ==
    IF i <= Len(text) /\ IsSpace(text[i]) THEN SkipSpaces(text, i + 1) ELSE i

\* \s*-\s* from position i: the position after it, 0 when there is no match
SepAt(text, i) ==
    LET a == SkipSpaces(text, i)
    IN  IF LitAt(text, a, "-") THEN SkipSpaces(text, a + 1) ELSE 0

\* (\d{n}),?(\d{3}) at position i, read as int(group + group)
AmountAt(text, i, n) ==
    IF ~DigitsAt(text, i, n) THEN NoAmount
    ELSE LET c == IF LitAt(text, i + n, ",") THEN i + n + 1 ELSE i + n
         IN  IF DigitsAt(text, c, 3)
             THEN [ok |-> TRUE, end |-> c + 3,
                   val |-> ToInt(SubSeq(text, i, i + n - 1)
                                 \o SubSeq(text, c, c + 2))]
             ELSE NoAmount

\* (\d{n})k at position i, read as int(group) * 1000
KAmountAt(text, i, n) ==
    IF DigitsAt(text, i, n) /\ LitAt(text, i + n, "k")
    THEN [ok |-> TRUE, end |-> i + n + 1,
          val |-> ToInt(SubSeq(text, i, i + n - 1)) * 1000]
    ELSE NoAmount

\* an optional literal pound sign at position i: the position after it
PoundAt(text, i, pound) ==
    IF i = 0 THEN 0
    ELSE IF ~pound THEN i
    ELSE IF LitAt(text, i, "£") THEN i + 1 ELSE 0

\* One way of matching a range pattern at position i, the two \d{2,3}
\* groups taking n1 and n2 digits.  form "full" is pattern 1
\* (pound signs, amounts), "k" pattern 2, "bare" pattern 3 (no pound sign).
RangeAt(text, i, form, n1, n2) ==
    LET Pound(p) == PoundAt(text, p, form # "bare")
        Amount(p, n) ==
            IF p = 0 THEN NoAmount
            ELSE IF form = "k" THEN KAmountAt(text, p, n)
            ELSE AmountAt(text, p, n)
        Sep(a1) == IF a1.ok THEN SepAt(text, a1.end) ELSE 0
        Both(a1, a2) ==
            IF a2.ok THEN [ok |-> TRUE, min |-> a1.val, max |-> a2.val]
            ELSE NoRange
        Second(a1) == Both(a1, Amount(Pound(Sep(a1)), n2))
    IN  Second(Amount(Pound(i), n1))

\* \d{2,3} is greedy: three digits are tried before two, the first group
\* before the second
Widths == <<<<3, 3>>, <<3, 2>>, <<2, 3>>, <<2, 2>>>>

MatchAt(text, i, form) ==
    LET Try(w) == RangeAt(text, i, form, Widths[w][1], Widths[w][2])
        FirstOf(m1, m2, m3, m4) ==
            IF m1.ok THEN m1 ELSE IF m2.ok THEN m2 ELSE IF m3.ok THEN m3 ELSE m4
    IN  FirstOf(Try(1), Try(2), Try(3), Try(4))

\* re.search(pattern, text): the match at the leftmost position that has
\* one; a match starts with a pound sign (patterns 1 and 2) or a digit
Search(text, form) ==
    LET first == IF form = "bare" THEN DigitSet ELSE {"£"}
        hits == {i \in 1..Len(text) :
                    text[i] \in first /\ MatchAt(text, i, form).ok}
        Leftmost(hs) ==
            IF hs = {} THEN NoRange
            ELSE MatchAt(text, CHOOSE i \in hs : \A j \in hs : i <= j, form)
    IN  Leftmost(hits)

salary_patterns_bare_first == <<"bare", "k", "full">>

\* the three patterns in the order of the list
salary_patterns == <<"full", "k", "bare">>

\* for pattern in salary_patterns: the first pattern that matches, break
ScanDescription(description) ==
    LET FirstOf(m1, m2, m3) ==
            IF m1.ok THEN m1 ELSE IF m2.ok THEN m2 ELSE m3
    IN  FirstOf(Search(description, salary_patterns[1]),
                Search(description, salary_patterns[2]),
                Search(description, salary_patterns[3]))

\* title keywords of the fallback estimates
SeniorTitles ==
    <<<<"s", "e", "n", "i", "o", "r">>, <<"l", "e", "a", "d">>>>
PrincipalTitles ==
    <<<<"p", "r", "i", "n", "c", "i", "p", "a", "l">>, <<"h", "e", "a", "d",
    " ", "o", "f">>>>
JuniorTitles ==
    <<<<"j", "u", "n", "i", "o", "r">>, <<"g", "r", "a", "d", "u", "a", "t",
    "e">>>>

Estimate(lo, hi) == <<Num(lo), Num(hi)>>

TitleEstimatePrincipalFirst(title) ==
    IF AnyIn(title, PrincipalTitles) THEN Estimate(120000, 180000)
    ELSE IF AnyIn(title, SeniorTitles) THEN Estimate(70000, 110000)
    ELSE IF AnyIn(title, JuniorTitles) THEN Estimate(35000, 55000)
    ELSE Estimate(50000, 75000)

\* Fallback estimates based on job title (title is lower-cased)
TitleEstimate(title) ==
    IF AnyIn(title, SeniorTitles) THEN Estimate(70000, 110000)
    ELSE IF AnyIn(title, PrincipalTitles) THEN Estimate(120000, 180000)
    ELSE IF AnyIn(title, JuniorTitles) THEN Estimate(35000, 55000)
    ELSE Estimate(50000, 75000)

\* job.get(key, '') of a title or description
GetText(field) == IF field.k = "missing" THEN <<>> ELSE field.v

extract_salary_no_fallback(job) ==
    LET Scanned(m) ==
            IF m.ok THEN <<Num(m.min), Num(m.max)>>
            ELSE TitleEstimate(Lower(GetText(job.title)))
    IN  IF ~Truthy(job.salary_min) \/ ~Truthy(job.salary_max)
        THEN Scanned(ScanDescription(Lower(GetText(job.description))))
        ELSE <<job.salary_min, job.salary_max>>

extract_salary_keep_upstream(job) ==
    LET Keep(upstream, other) == IF Truthy(upstream) THEN upstream ELSE other
        Fallback(lo, hi) ==
            IF ~Truthy(lo) \/ ~Truthy(hi)
            THEN TitleEstimate(Lower(GetText(job.title)))
            ELSE <<lo, hi>>
        Scanned(m) ==
            IF m.ok
            THEN Fallback(Keep(job.salary_min, Num(m.min)),
                          Keep(job.salary_max, Num(m.max)))
            ELSE Fallback(job.salary_min, job.salary_max)
    IN  IF ~Truthy(job.salary_min) \/ ~Truthy(job.salary_max)
        THEN Scanned(ScanDescription(Lower(GetText(job.description))))
        ELSE Fallback(job.salary_min, job.salary_max)

\* extract_salary(job): the pair (salary_min, salary_max)
extract_salary(job) ==
    LET Fallback(lo, hi) ==
            IF ~Truthy(lo) \/ ~Truthy(hi)
            THEN TitleEstimate(Lower(GetText(job.title)))
            ELSE <<lo, hi>>
        Scanned(m) ==
            IF m.ok THEN Fallback(Num(m.min), Num(m.max))
            ELSE Fallback(job.salary_min, job.salary_max)
    IN  IF ~Truthy(job.salary_min) \/ ~Truthy(job.salary_max)
        THEN Scanned(ScanDescription(Lower(GetText(job.description))))
        ELSE Fallback(job.salary_min, job.salary_max)

\* ------------------------------------------------------------------------
\* classify_job_category, extract_experience_level, extract_work_type
\* ------------------------------------------------------------------------
ResearchTerms ==
    <<<<"r", "e", "s", "e", "a", "r", "c", "h">>, <<"s", "c", "i", "e", "n",
    "t", "i", "s", "t">>, <<"p", "h", "d">>>>
ProductTerms ==
    <<<<"p", "r", "o", "d", "u", "c", "t", " ", "m", "a", "n", "a", "g", "e",
    "r">>, <<"p", "r", "o", "d", "u", "c", "t", " ", "o", "w", "n", "e",
    "r">>, <<"s", "t", "r", "a", "t", "e", "g", "y">>>>
SpecializedTerms ==
    <<<<"n", "l", "p">>, <<"n", "a", "t", "u", "r", "a", "l", " ", "l", "a",
    "n", "g", "u", "a", "g", "e">>, <<"c", "o", "m", "p", "u", "t", "e", "r",
    " ", "v", "i", "s", "i", "o", "n">>, <<"c", "v", " ", "e", "n", "g", "i",
    "n", "e", "e", "r">>>>
DataScienceTerms ==
    <<<<"d", "a", "t", "a", " ", "s", "c", "i", "e", "n", "t", "i", "s",
    "t">>, <<"d", "a", "t", "a", " ", "a", "n", "a", "l", "y", "s", "t">>,
    <<"a", "n", "a", "l", "y", "t", "i", "c", "s">>>>

\* (title + ' ' + description).lower()
TitleAndDescription(title, description) ==
    Lower(title \o <<" ">> \o description)

classify_job_category_data_science_first(title, description) ==
    LET Rule(text) ==
            IF AnyIn(text, DataScienceTerms) THEN "Data Science"
            ELSE IF AnyIn(text, ResearchTerms) THEN "Research"
            ELSE IF AnyIn(text, ProductTerms) THEN "Product & Management"
            ELSE IF AnyIn(text, SpecializedTerms) THEN "Specialized"
            ELSE "Engineering"
    IN  Rule(TitleAndDescription(title, description))

classify_job_category_no_default(title, description) ==
    LET Rule(text) ==
            IF AnyIn(text, ResearchTerms) THEN "Research"
            ELSE IF AnyIn(text, ProductTerms) THEN "Product & Management"
            ELSE IF AnyIn(text, SpecializedTerms) THEN "Specialized"
            ELSE IF AnyIn(text, DataScienceTerms) THEN "Data Science"
            ELSE "<None>"
    IN  Rule(TitleAndDescription(title, description))

classify_job_category(title, description) ==
    LET Rule(text) ==
            IF AnyIn(text, ResearchTerms) THEN "Research"
            ELSE IF AnyIn(text, ProductTerms) THEN "Product & Management"
            ELSE IF AnyIn(text, SpecializedTerms) THEN "Specialized"
            ELSE IF AnyIn(text, DataScienceTerms) THEN "Data Science"
            ELSE "Engineering"
    IN  Rule(TitleAndDescription(title, description))

PrincipalTerms ==
    <<<<"p", "r", "i", "n", "c", "i", "p", "a", "l">>, <<"h", "e", "a", "d",
    " ", "o", "f">>, <<"d", "i", "r", "e", "c", "t", "o", "r">>>>
LeadTerms ==
    <<<<"l", "e", "a", "d">>, <<"t", "e", "a", "m", " ", "l", "e", "a", "d">>,
    <<"t", "e", "c", "h", " ", "l", "e", "a", "d">>>>
SeniorTerms ==
    <<<<"s", "e", "n", "i", "o", "r">>, <<"s", "r", ".">>, <<"s", "r", " ">>>>
EntryTerms ==
    <<<<"j", "u", "n", "i", "o", "r">>, <<"j", "r", ".">>, <<"g", "r", "a",
    "d", "u", "a", "t", "e">>, <<"e", "n", "t", "r", "y">>>>

extract_experience_level_senior_first(title, description) ==
    LET Rule(text) ==
            IF AnyIn(text, SeniorTerms) THEN "Senior"
            ELSE IF AnyIn(text, PrincipalTerms) THEN "Principal"
            ELSE IF AnyIn(text, LeadTerms) THEN "Lead"
            ELSE IF AnyIn(text, EntryTerms) THEN "Entry"
            ELSE "Mid"
    IN  Rule(TitleAndDescription(title, description))

extract_experience_level(title, description) ==
    LET Rule(text) ==
            IF AnyIn(text, PrincipalTerms) THEN "Principal"
            ELSE IF AnyIn(text, LeadTerms) THEN "Lead"
            ELSE IF AnyIn(text, SeniorTerms) THEN "Senior"
            ELSE IF AnyIn(text, EntryTerms) THEN "Entry"
            ELSE "Mid"
    IN  Rule(TitleAndDescription(title, description))

RemoteTerms ==
    <<<<"r", "e", "m", "o", "t", "e">>, <<"w", "o", "r", "k", " ", "f", "r",
    "o", "m", " ", "h", "o", "m", "e">>, <<"w", "f", "h">>>>
HybridTerms ==
    <<<<"h", "y", "b", "r", "i", "d">>, <<"f", "l", "e", "x", "i", "b", "l",
    "e">>, <<"o", "f", "f", "i", "c", "e", " ", "d", "a", "y", "s">>>>
OnSiteTerms ==
    <<<<"o", "n", "-", "s", "i", "t", "e">>, <<"o", "f", "f", "i", "c", "e",
    "-", "b", "a", "s", "e", "d">>, <<"i", "n", " ", "o", "f", "f", "i", "c",
    "e">>>>

extract_work_type_hybrid_first(description) ==
    LET Rule(text) ==
            IF AnyIn(text, HybridTerms) THEN "Hybrid"
            ELSE IF AnyIn(text, RemoteTerms) THEN "Remote"
            ELSE IF AnyIn(text, OnSiteTerms) THEN "On-site"
            ELSE "Hybrid"
    IN  Rule(Lower(description))

extract_work_type(description) ==
    LET Rule(text) ==
            IF AnyIn(text, RemoteTerms)
            THEN IF AnyIn(text, HybridTerms) THEN "Hybrid" ELSE "Remote"
            ELSE IF AnyIn(text, OnSiteTerms) THEN "On-site"
            ELSE "Hybrid"
    IN  Rule(Lower(description))

\* ------------------------------------------------------------------------
\* extract_skills
\* ------------------------------------------------------------------------
skill_keywords ==
    <<<<"p", "y", "t", "h", "o", "n">>, <<"t", "e", "n", "s", "o", "r", "f",
    "l", "o", "w">>, <<"p", "y", "t", "o", "r", "c", "h">>, <<"s", "c", "i",
    "k", "i", "t", "-", "l", "e", "a", "r", "n">>, <<"p", "a", "n", "d", "a",
    "s">>, <<"n", "u", "m", "p", "y">>, <<"a", "w", "s">>, <<"a", "z", "u",
    "r", "e">>, <<"g", "c", "p">>, <<"d", "o", "c", "k", "e", "r">>, <<"k",
    "u", "b", "e", "r", "n", "e", "t", "e", "s">>, <<"s", "q", "l">>, <<"m",
    "o", "n", "g", "o", "d", "b">>, <<"s", "p", "a", "r", "k">>, <<"h", "a",
    "d", "o", "o", "p">>, <<"k", "a", "f", "k", "a">>, <<"a", "i", "r", "f",
    "l", "o", "w">>, <<"m", "l", "f", "l", "o", "w">>, <<"c", "u", "d", "a">>,
    <<"g", "i", "t">>, <<"t", "r", "a", "n", "s", "f", "o", "r", "m", "e",
    "r", "s">>, <<"l", "a", "n", "g", "c", "h", "a", "i", "n">>, <<"o", "p",
    "e", "n", "a", "i">>, <<"h", "u", "g", "g", "i", "n", "g", " ", "f", "a",
    "c", "e">>, <<"b", "e", "r", "t">>, <<"r", "e", "a", "c", "t">>, <<"j",
    "a", "v", "a", "s", "c", "r", "i", "p", "t">>, <<"n", "o", "d", "e", ".",
    "j", "s">>, <<"j", "a", "v", "a">>, <<"s", "c", "a", "l", "a">>, <<"r">>,
    <<"m", "a", "t", "l", "a", "b">>, <<"t", "a", "b", "l", "e", "a", "u">>,
    <<"p", "o", "w", "e", "r", " ", "b", "i">>, <<"j", "u", "p", "y", "t",
    "e", "r">>, <<"a", "n", "a", "c", "o", "n", "d", "a">>, <<"l", "i", "n",
    "u", "x">>>>

SkillLimit == 6     \* found_skills[:6]

Prefix(s, n) == SubSeq(s, 1, Min(Len(s), n))

\* the vocabulary entries found in text, title-cased, in vocabulary order
FoundSkills(text) ==
    LET found == SelectSeq(skill_keywords, LAMBDA skill : Contains(text, skill))
    IN  SubSeq([n \in 1..Len(found) |-> TitleCase(found[n])], 1, Len(found))

extract_skills_uncapped(description) == FoundSkills(Lower(description))

extract_skills(description) ==
    Prefix(FoundSkills(Lower(description)), SkillLimit)

\* ', '.join(skills)
CommaSpace == <<",", " ">>

\* ------------------------------------------------------------------------
\* clean_location
\* ------------------------------------------------------------------------
UK == <<"U", "K">>

\* the keys of location_mapping, in the order of the dict literal
LocationKeys ==
    <<<<"G", "r", "e", "a", "t", "e", "r", " ", "L", "o", "n", "d", "o",
    "n">>, <<"C", "i", "t", "y", " ", "o", "f", " ", "L", "o", "n", "d", "o",
    "n">>, <<"C", "e", "n", "t", "r", "a", "l", " ", "L", "o", "n", "d", "o",
    "n">>, <<"M", "a", "n", "c", "h", "e", "s", "t", "e", "r", ",", " ", "G",
    "r", "e", "a", "t", "e", "r", " ", "M", "a", "n", "c", "h", "e", "s", "t",
    "e", "r">>, <<"B", "i", "r", "m", "i", "n", "g", "h", "a", "m", ",", " ",
    "W", "e", "s", "t", " ", "M", "i", "d", "l", "a", "n", "d", "s">>, <<"E",
    "d", "i", "n", "b", "u", "r", "g", "h", ",", " ", "S", "c", "o", "t", "l",
    "a", "n", "d">>, <<"G", "l", "a", "s", "g", "o", "w", ",", " ", "S", "c",
    "o", "t", "l", "a", "n", "d">>, <<"C", "a", "m", "b", "r", "i", "d", "g",
    "e", ",", " ", "C", "a", "m", "b", "r", "i", "d", "g", "e", "s", "h", "i",
    "r", "e">>, <<"O", "x", "f", "o", "r", "d", ",", " ", "O", "x", "f", "o",
    "r", "d", "s", "h", "i", "r", "e">>, <<"B", "r", "i", "s", "t", "o", "l",
    ",", " ", "S", "o", "u", "t", "h", " ", "W", "e", "s", "t">>, <<"L", "e",
    "e", "d", "s", ",", " ", "W", "e", "s", "t", " ", "Y", "o", "r", "k", "s",
    "h", "i", "r", "e">>, <<"N", "e", "w", "c", "a", "s", "t", "l", "e", " ",
    "u", "p", "o", "n", " ", "T", "y", "n", "e">>>>

\* the value of each key of location_mapping
LocationValues ==
    <<<<"L", "o", "n", "d", "o", "n">>, <<"L", "o", "n", "d", "o", "n">>,
    <<"L", "o", "n", "d", "o", "n">>, <<"M", "a", "n", "c", "h", "e", "s",
    "t", "e", "r">>, <<"B", "i", "r", "m", "i", "n", "g", "h", "a", "m">>,
    <<"E", "d", "i", "n", "b", "u", "r", "g", "h">>, <<"G", "l", "a", "s",
    "g", "o", "w">>, <<"C", "a", "m", "b", "r", "i", "d", "g", "e">>, <<"O",
    "x", "f", "o", "r", "d">>, <<"B", "r", "i", "s", "t", "o", "l">>, <<"L",
    "e", "e", "d", "s">>, <<"N", "e", "w", "c", "a", "s", "t", "l", "e">>>>

\* str.strip(): leading and trailing white space removed
RECURSIVE LStrip(_)
LStrip(s) == IF s # <<>> /\ IsSpace(Head(s)) THEN LStrip(Tail(s)) ELSE s
RECURSIVE RStrip(_)
RStrip(s) ==
    IF s # <<>> /\ IsSpace(s[Len(s)])
    THEN RStrip(SubSeq(s, 1, Len(s) - 1)) ELSE s
Strip(s) == RStrip(LStrip(s))

\* location_mapping.get(location, location)
MappingGet(location) ==
    IF \E n \in 1..Len(LocationKeys) : LocationKeys[n] = location
    THEN LocationValues[CHOOSE n \in 1..Len(LocationKeys) :
                           LocationKeys[n] = location]
    ELSE location

clean_location_no_strip(location) ==
    IF location.k # "str" \/ location.v = <<>> THEN UK
    ELSE MappingGet(location.v)

\* clean_location(location): location is a string or None
clean_location(location) ==
    IF location.k # "str" \/ location.v = <<>> THEN UK
    ELSE MappingGet(Strip(location.v))

\* job.get('location', {}).get('display_name', 'UK')
LocationName(job) ==
    IF job.location = "missing" \/ job.location_name.k = "missing"
    THEN Text(UK) ELSE job.location_name

\* ------------------------------------------------------------------------
\* LocationSpec: the locations one record is normalized from
\* ------------------------------------------------------------------------
MaxPad == 1         \* a location has 0..MaxPad white space characters on
                    \* either side

\* location strings that are no key of location_mapping
OtherLocations ==
    <<<<"L", "o", "n", "d", "o", "n">>, <<"U", "K">>, <<"R", "e", "m", "o",
    "t", "e">>, <<"g", "r", "e", "a", "t", "e", "r", " ", "l", "o", "n", "d",
    "o", "n">>, <<"G", "r", "e", "a", "t", "e", "r", " ", "L", "o", "n", "d",
    "o", "n", ",", " ", "U", "K">>, <<"T", "y", "n", "e", " ", "a", "n", "d",
    " ", "W", "e", "a", "r">>>>

Pads == SeqsUpTo({" ", "\t"}, MaxPad)
LocationCores ==
    {<<>>} \cup Range(LocationKeys) \cup Range(OtherLocations)
LocationStrings ==
    {l \o core \o r : l \in Pads, core \in LocationCores, r \in Pads}

WithLocation(loc, ln) ==
    RawFull(Text(ML_Engineer), "dict", Str("Acme"), D1, NoNum, NoNum, loc, ln,
            MissingText)
LocationPostings ==
    {WithLocation("dict", Text(s)) : s \in LocationStrings}
    \cup {WithLocation("dict", NullText), WithLocation("dict", MissingText),
          WithLocation("missing", MissingText),
          WithLocation("null", MissingText)}

\* ------------------------------------------------------------------------
\* parse_date
\* ------------------------------------------------------------------------

\* date_str.replace('Z', '+00:00')
RECURSIVE ReplaceZ(_)
ReplaceZ(s) ==
    IF s = <<>> THEN <<>>
    ELSE (IF Head(s) = "Z" THEN <<"+", "0", "0", ":", "0", "0">>
          ELSE <<Head(s)>>) \o ReplaceZ(Tail(s))

Field(s, i, n) == ToInt(SubSeq(s, i, i + n - 1))
IsLeap(y) == (y % 4 = 0 /\ y % 100 # 0) \/ y % 400 = 0
DaysInMonth(y, m) ==
    IF m = 2 THEN (IF IsLeap(y) THEN 29 ELSE 28)
    ELSE IF m \in {4, 6, 9, 11} THEN 30 ELSE 31

\* YYYY-MM-DD at the start of s, a date of the calendar
DateAt(s) ==
    /\ Len(s) >= 10
    /\ DigitsAt(s, 1, 4) /\ s[5] = "-"
    /\ DigitsAt(s, 6, 2) /\ s[8] = "-"
    /\ DigitsAt(s, 9, 2)
    /\ Field(s, 1, 4) >= 1
    /\ Field(s, 6, 2) \in 1..12
    /\ Field(s, 9, 2) \in 1..DaysInMonth(Field(s, 1, 4), Field(s, 6, 2))

\* HH[:MM[:SS]], the shape of a time and of a UTC offset
ClockShape(t) ==
    /\ Len(t) \in {2, 5, 8}
    /\ DigitsAt(t, 1, 2)
    /\ Len(t) >= 5 => (t[3] = ":" /\ DigitsAt(t, 4, 2))
    /\ Len(t) >= 8 => (t[6] = ":" /\ DigitsAt(t, 7, 2))
ClockField(t, i) == IF Len(t) > i THEN Field(t, i, 2) ELSE 0
ClockSeconds(t) ==
    ClockField(t, 1) * 3600 + ClockField(t, 4) * 60 + ClockField(t, 7)

\* tstr.find(c) + 1: the position of the first c in t, 0 when there is none
Find(t, c) ==
    IF \E i \in 1..Len(t) : t[i] = c
    THEN CHOOSE i \in 1..Len(t) : t[i] = c /\ \A j \in 1..(i - 1) : t[j] # c
    ELSE 0

\* the time of day of a time string without its offset
TimeOk(t) ==
    /\ ClockShape(t)
    /\ ClockField(t, 1) < 24 /\ ClockField(t, 4) < 60 /\ ClockField(t, 7) < 60

\* the UTC offset after the sign: HH:MM or HH:MM:SS, less than a day
OffsetOk(z) ==
    /\ Len(z) \in {5, 8}
    /\ ClockShape(z)
    /\ ClockSeconds(z) < 24 * 3600

NoDate == [ok |-> FALSE, date |-> <<>>, seconds |-> 0, aware |-> FALSE,
           offset |-> 0]
DateTime(s, seconds, aware, offset) ==
    [ok |-> TRUE,
     date |-> <<Field(s, 1, 4), Field(s, 6, 2), Field(s, 9, 2)>>,
     seconds |-> seconds, aware |-> aware, offset |-> offset]

\* the time string after the separator: split at the first '-', or else
\* the first '+', into the time and the offset
TimeAt(s, t) ==
    LET Split(sign) ==
            IF sign = 0
            THEN (IF TimeOk(t) THEN DateTime(s, ClockSeconds(t), FALSE, 0)
                  ELSE NoDate)
            ELSE LET Parts(time, zone) ==
                         IF TimeOk(time) /\ OffsetOk(zone)
                         THEN DateTime(s, ClockSeconds(time), TRUE,
                                       IF t[sign] = "-"
                                       THEN 0 - ClockSeconds(zone)
                                       ELSE ClockSeconds(zone))
                         ELSE NoDate
                 IN  Parts(SubSeq(t, 1, sign - 1), SubSeq(t, sign + 1, Len(t)))
    IN  Split(IF Find(t, "-") # 0 THEN Find(t, "-") ELSE Find(t, "+"))

\* datetime.fromisoformat(date_string): YYYY-MM-DD, then after any one
\* separator character HH[:MM[:SS]] and an offset +HH:MM[:SS] or -HH:MM[:SS]
\* (fractions of a second are left out)
fromisoformat(s) ==
    IF ~DateAt(s) THEN NoDate
    ELSE IF Len(s) <= 11 THEN DateTime(s, 0, FALSE, 0)
    ELSE TimeAt(s, SubSeq(s, 12, Len(s)))

\* datetime.now() - timedelta(days=n), the clock left symbolic
NowMinusDays(n) == [k |-> "now_minus_days", days |-> n, at |-> NoDate]
Parsed(dt) == [k |-> "parsed", days |-> 0, at |-> dt]

parse_date_default_now(date_str) ==
    LET Try(dt) == IF dt.ok THEN Parsed(dt) ELSE NowMinusDays(0)
    IN  IF date_str.k # "str" THEN NowMinusDays(0)
        ELSE Try(fromisoformat(ReplaceZ(date_str.v)))

\* parse_date(date_str): date_str is a string or None; the bare except
\* catches the AttributeError of None.replace and the ValueError of
\* fromisoformat
parse_date(date_str) ==
    LET Try(dt) == IF dt.ok THEN Parsed(dt) ELSE NowMinusDays(1)
    IN  IF date_str.k # "str" THEN NowMinusDays(1)
        ELSE Try(fromisoformat(ReplaceZ(date_str.v)))

\* ------------------------------------------------------------------------
\* DateSpec: the creation dates one record is normalized from
\* ------------------------------------------------------------------------
GoodDates ==
    <<<<"2", "0", "2", "5", "-", "0", "1", "-", "1", "5">>, <<"2", "0", "2",
    "4", "-", "0", "2", "-", "2", "9">>>>
BadDates ==
    <<<<"2", "0", "2", "5", "-", "0", "2", "-", "2", "9">>, <<"2", "0", "2",
    "5", "-", "1", "3", "-", "0", "1">>, <<"2", "0", "2", "5", "-", "0", "0",
    "-", "1", "0">>, <<"1", "5", "/", "0", "1", "/", "2", "0", "2", "5">>,
    <<"2", "0", "2", "5", "-", "1", "-", "5">>>>
GoodTimes ==
    <<<<"T", "1", "0", ":", "3", "0", ":", "0", "0">>, <<" ", "2", "3", ":",
    "5", "9", ":", "5", "9">>, <<"T", "1", "0", ":", "3", "0">>>>
BadTimes ==
    <<<<"T", "2", "5", ":", "0", "0", ":", "0", "0">>, <<"T", "1", "0", ":",
    "6", "0", ":", "0", "0">>, <<"T", "1", "0", ":", "3", "0", ":", "6",
    "1">>>>
GoodZones == <<<<>>, <<"Z">>, <<"+", "0", "1", ":", "0", "0">>>>
BadZones ==
    <<<<"Z", "Z">>, <<"Z", "u", "l", "u">>>>
NoDates == <<<<>>, <<"n", "o", "t", " ", "a", " ", "d", "a", "t", "e">>>>

Concat3(ds, ts, zs) ==
    {d \o t \o z : d \in Range(ds), t \in Range(ts), z \in Range(zs)}
CreatedStrings ==
    Range(GoodDates) \cup Range(BadDates) \cup Range(NoDates)
    \cup Concat3(GoodDates \o BadDates, GoodTimes \o BadTimes,
                 GoodZones \o BadZones)

WithCreated(cr) ==
    RawFull(Text(ML_Engineer), "dict", Str("Acme"), D1, NoNum, NoNum,
            "missing", MissingText, cr)
DatePostings ==
    {WithCreated(Text(s)) : s \in CreatedStrings}
    \cup {WithCreated(NullText), WithCreated(MissingText)}

\* ------------------------------------------------------------------------
\* process_jobs_data
\* ------------------------------------------------------------------------

\* The body of the try block raises (AttributeError / TypeError) for:
\*   a posting that is not a dict          (job.get)
\*   a title that is not a string          (title + ' ' + description)
\*   a description that is not a string    (description.lower())
\*   a company that is not a dict          (job.get('company', {}).get)
\*   a location that is not a dict         (job.get('location', {}).get)
NormalizeRaises(job) ==
    \/ ~job.is_dict
    \/ job.title.k \notin {"str", "missing"}
    \/ job.description.k \notin {"str", "missing"}
    \/ job.company \notin {"dict", "missing"}
    \/ job.location \notin {"dict", "missing"}

\* job.get('description', '')[:500] + '...'
Truncate(cs) == SubSeq(cs, 1, Min(Len(cs), DescLimit)) \o <<".", ".", ".">>

SalaryAvgWrongPrecedence(lo, hi) ==
    IF Truthy(lo) /\ Truthy(hi)
    THEN [k |-> "num", num |-> 2 * lo.v + hi.v, den |-> 2]
    ELSE [k |-> "none", num |-> 0, den |-> 1]

\* (salary_min + salary_max) / 2 if salary_min and salary_max else None:
\* the quotient num / den, or None
SalaryAvg(lo, hi) ==
    IF Truthy(lo) /\ Truthy(hi)
    THEN [k |-> "num", num |-> lo.v + hi.v, den |-> 2]
    ELSE [k |-> "none", num |-> 0, den |-> 1]

\* The processed_job dict: the columns deduplication reads (title, company),
\* the columns derived from title, description and the salary fields, and
\* the truncated description.
ProcessedJob(job) ==
    LET Record(title, description, salary) ==
            [title |-> IF job.title.k = "missing" THEN Unknown ELSE job.title.v,
             company |-> IF job.company = "missing"
                            \/ job.display_name.k = "missing"
                         THEN Str("Unknown") ELSE job.display_name,
             location |-> clean_location(LocationName(job)),
             posted_date |-> parse_date(job.created),
             category |-> classify_job_category(title, description),
             experience_level |-> extract_experience_level(title, description),
             work_type |-> extract_work_type(description),
             salary_min |-> salary[1],
             salary_max |-> salary[2],
             salary_avg |-> SalaryAvg(salary[1], salary[2]),
             required_skills |-> Join(CommaSpace, extract_skills(description)),
             description |-> Truncate(description)]
    IN  Record(GetText(job.title), GetText(job.description),
               extract_salary(job))

\* One iteration of the for loop: the record appended, or nothing when the
\* except clause swallowed an exception.
NormalizeJob(job) ==
    IF NormalizeRaises(job) THEN <<>> ELSE <<ProcessedJob(job)>>

\* NormalizeJob is a function of the posting alone: its values on the
\* postings of RawPostings, evaluated once
NormalizeJobOfRaw == [job \in RawPostings |-> NormalizeJob(job)] @@ <<>>

\* The for loop over raw_jobs
RECURSIVE NormalizeAll(_)
NormalizeAll(raw_jobs) ==
    IF raw_jobs = <<>> THEN <<>>
    ELSE (IF Head(raw_jobs) \in RawPostings
          THEN NormalizeJobOfRaw[Head(raw_jobs)]
          ELSE NormalizeJob(Head(raw_jobs)))
         \o NormalizeAll(Tail(raw_jobs))

Key(j) == <<j.title, j.company>>

\* pandas hashes the cells of the subset columns: a list cell is unhashable
\* and drop_duplicates raises TypeError (an empty frame is returned as is).
Unhashable(jobs) == \E i \in 1..Len(jobs) : jobs[i].company.k = "list"

RECURSIVE KeepFirst(_, _)
KeepFirst(jobs, i) ==
    IF i = 0 THEN <<>>
    ELSE IF \E j \in 1..(i - 1) : Key(jobs[j]) = Key(jobs[i])
         THEN KeepFirst(jobs, i - 1)
         ELSE Append(KeepFirst(jobs, i - 1), jobs[i])

RECURSIVE KeepLast(_, _)
KeepLast(jobs, i) ==
    IF i = 0 THEN <<>>
    ELSE IF \E j \in (i + 1)..Len(jobs) : Key(jobs[j]) = Key(jobs[i])
         THEN KeepLast(jobs, i - 1)
         ELSE Append(KeepLast(jobs, i - 1), jobs[i])

\* removes a row only when it repeats the row right before it
RECURSIVE KeepNonAdjacent(_, _)
KeepNonAdjacent(jobs, i) ==
    IF i = 0 THEN <<>>
    ELSE IF i > 1 /\ Key(jobs[i - 1]) = Key(jobs[i])
         THEN KeepNonAdjacent(jobs, i - 1)
         ELSE Append(KeepNonAdjacent(jobs, i - 1), jobs[i])

\* removes rows while iterating: the row after a removed row is skipped
RECURSIVE SkipAfterRemoval(_, _)
SkipAfterRemoval(jobs, i) ==
    IF i = 0 THEN [out |-> <<>>, removed |-> FALSE]
    ELSE LET r == SkipAfterRemoval(jobs, i - 1)
         IN  IF ~r.removed /\ \E j \in 1..(i - 1) : Key(jobs[j]) = Key(jobs[i])
             THEN [out |-> r.out, removed |-> TRUE]
             ELSE [out |-> Append(r.out, jobs[i]), removed |-> FALSE]

drop_duplicates_keep_last(jobs) == KeepLast(jobs, Len(jobs))
drop_duplicates_adjacent(jobs) == KeepNonAdjacent(jobs, Len(jobs))
drop_duplicates_skipping(jobs) == SkipAfterRemoval(jobs, Len(jobs)).out

\* df.drop_duplicates(subset=['title', 'company'], keep='first')
drop_duplicates(jobs) == KeepFirst(jobs, Len(jobs))

\* The whole call: processed is the list handed to pd.DataFrame, raised is
\* TRUE when the call ends with an exception instead of returning df.
process_jobs_data(raw_jobs) ==
    LET Frame(processed) ==
            IF Unhashable(processed)
            THEN [raised |-> TRUE, processed |-> processed, df |-> <<>>]
            ELSE [raised |-> FALSE, processed |-> processed,
                  df |-> drop_duplicates(processed)]
    IN  Frame(NormalizeAll(raw_jobs))

\* ------------------------------------------------------------------------
\* save_data: df.to_csv(filename, index=False) rewrites the whole file
\* ------------------------------------------------------------------------
Columns ==
    <<"job_id", "title", "company", "location", "category",
      "experience_level", "work_type", "salary_min", "salary_max",
      "salary_avg", "required_skills", "description", "posted_date", "url",
      "source", "fetched_at">>

NoFile == [exists |-> FALSE, header |-> <<>>, rows |-> <<>>]
to_csv(df) == [exists |-> TRUE, header |-> Columns, rows |-> df]

\* what an earlier run may have left at live_uk_ai_jobs.csv
OldFiles == {NoFile, to_csv(<<ProcessedJob(DSAcme)>>)}

\* ------------------------------------------------------------------------
\* State
\* ------------------------------------------------------------------------
VARIABLES
    pc,           \* main(): "start", "fetching" (inside fetch_ai_jobs), "done";
                  \* SaveSpec: "save", "writing" (inside df.to_csv), "done"
    app_id,       \* os.getenv('ADZUNA_APP_ID')
    app_key,      \* os.getenv('ADZUNA_APP_KEY')
    max_results,  \* argument of fetch_ai_jobs
    term,         \* index in search_terms of the next request
    page_num,     \* page of the next request
    all_jobs,     \* accumulator of raw postings
    nreq,         \* number of requests.get calls issued so far
    last,         \* the latest request: term, page, outcome, slept after it
    calls,        \* number of process_jobs_data calls
    raw_in,       \* the raw_jobs argument of the process_jobs_data call
    df,           \* the frame fetch_ai_jobs returned
    err,          \* exception caught by main(): "none", "ValueError",
                  \* "TypeError", "OSError"
    file,         \* contents of live_uk_ai_jobs.csv
    writes,       \* number of save_data calls
    bpc,          \* BatchSpec: "idle", "ready", "done"
    batch,        \* BatchSpec: the raw_jobs argument
    out,          \* BatchSpec: outcome of process_jobs_data(batch)
    consumed      \* ConsumeSpec: how each reader of the file ended

vars ==
    <<pc, app_id, app_key, max_results, term, page_num, all_jobs, nreq, last,
      calls, raw_in, df, err, file, writes, bpc, batch, out, consumed>>

runVars ==
    <<pc, app_id, app_key, max_results, term, page_num, all_jobs, nreq, last,
      calls, raw_in, df, err, file, writes>>
batchVars == <<bpc, batch, out>>

None == "<None>"
EnvValues == {None, "", "a1b2c3"}

NoRequest == [term |-> 0, page |-> 0, outcome |-> "none", slept |-> FALSE]
NoOutcome == [raised |-> FALSE, processed |-> <<>>, df |-> <<>>]

\* the readers of live_uk_ai_jobs.csv
Consumers == {"context", "sentiment", "api"}
Pending == [k |-> "pending", error |-> "", status |-> 0, jobs |-> 0]
NotRead == [c \in Consumers |-> Pending]

\* ------------------------------------------------------------------------
\* AdzunaJobFetcher.__init__
\* ------------------------------------------------------------------------
Falsy(v) == v = None \/ v = ""

CredentialsMissingBoth(id, key) == Falsy(id) /\ Falsy(key)

\* if not self.app_id or not self.app_key: raise ValueError
CredentialsMissing(id, key) == Falsy(id) \/ Falsy(key)

\* ------------------------------------------------------------------------
\* fetch_ai_jobs: where the nested loops go after each outcome of a request
\* ------------------------------------------------------------------------
At(t, p) == [stop |-> FALSE, term |-> t, page |-> p]
Stop == [stop |-> TRUE, term |-> 0, page |-> 0]

BudgetExceeded(n, max) == n > max

\* len(all_jobs) >= max_results
BudgetReached(n, max) == n >= max

\* the outer for loop advances to the next search term, or ends
NextTerm(t) == IF t < NumTerms THEN At(t + 1, 1) ELSE Stop

\* the inner loop was left normally or by break: the outer budget check
AfterInnerLoop(t, n, max) == IF BudgetReached(n, max) THEN Stop ELSE NextTerm(t)

NextPageSkipping(t, p, n, max) ==
    IF p < MaxPages - 1 THEN At(t, p + 2) ELSE AfterInnerLoop(t, n, max)

\* for page_num in range(1, 6): the next page of the term, or the loop ends
NextPage(t, p, n, max) ==
    IF p < MaxPages THEN At(t, p + 1) ELSE AfterInnerLoop(t, n, max)

\* status 200 with a non-empty page: extend, sleep, inner budget check
AfterPage(t, p, n, max) ==
    IF BudgetReached(n, max) THEN AfterInnerLoop(t, n, max)
    ELSE NextPage(t, p, n, max)

OnEmptyPageContinue(t, p, n, max) == NextPage(t, p, n, max)

\* status 200 with no results: break
OnEmptyPage(t, p, n, max) == AfterInnerLoop(t, n, max)

OnHttpErrorContinue(t, p, n, max) == NextPage(t, p, n, max)

\* status other than 200: break
OnHttpError(t, p, n, max) == AfterInnerLoop(t, n, max)

OnExceptionAbort(t) == Stop

\* except Exception: continue
OnException(t) == NextTerm(t)

\* ------------------------------------------------------------------------
\* Actions of Spec
\* ------------------------------------------------------------------------

\* The rest of the run once the loops of fetch_ai_jobs are left with
\* accumulator all: process_jobs_data(all), then in main() the save of a
\* non-empty frame, or the except clause when the call raised.
Finish(all) ==
    LET Main(res) ==
            /\ pc' = "done"
            /\ calls' = calls + 1
            /\ raw_in' = all
            /\ df' = res.df
            /\ err' = IF res.raised THEN "TypeError" ELSE "none"
            /\ IF ~res.raised /\ Len(res.df) > 0
               THEN file' = to_csv(res.df) /\ writes' = writes + 1
               ELSE UNCHANGED <<file, writes>>
    IN  Main(process_jobs_data(all))

\* One request was issued at (term, page_num) and handled; pos is where the
\* loops go next and all is the accumulator after handling.
Handled(outcome, slept, all, pos) ==
    /\ nreq' = nreq + 1
    /\ last' = [term |-> term, page |-> page_num, outcome |-> outcome,
                slept |-> slept]
    /\ all_jobs' = all
    /\ IF pos.stop
       THEN Finish(all) /\ UNCHANGED <<term, page_num>>
       ELSE /\ term' = pos.term
            /\ page_num' = pos.page
            /\ UNCHANGED <<pc, calls, raw_in, df, err, file, writes>>
    /\ UNCHANGED <<app_id, app_key, max_results, batchVars, consumed>>

\* main(): fetcher = AdzunaJobFetcher(); on ValueError the except clause of
\* main() ends the run, otherwise fetch_ai_jobs starts at term 1, page 1.
Construct ==
    /\ pc = "start"
    /\ IF CredentialsMissing(app_id, app_key)
       THEN pc' = "done" /\ err' = "ValueError"
       ELSE pc' = "fetching" /\ err' = "none"
    /\ UNCHANGED <<app_id, app_key, max_results, term, page_num, all_jobs,
                   nreq, last, calls, raw_in, df, file, writes, batchVars, consumed>>

\* status 200, data['results'] non-empty
Page(jobs) ==
    /\ pc = "fetching"
    /\ LET all == all_jobs \o jobs
       IN  Handled("page", TRUE, all,
                   AfterPage(term, page_num, Len(all), max_results))

RequestPage ==
    \E jobs \in NonEmptySeqsUpTo(PagePostings, MaxPageLen) : Page(jobs)

\* status 200, data['results'] empty or absent
RequestEmpty ==
    /\ pc = "fetching"
    /\ Handled("empty", FALSE, all_jobs,
               OnEmptyPage(term, page_num, Len(all_jobs), max_results))

\* status other than 200
RequestHttpError ==
    /\ pc = "fetching"
    /\ Handled("http_error", FALSE, all_jobs,
               OnHttpError(term, page_num, Len(all_jobs), max_results))

\* requests.get, response.json() or data.get raised
RequestRaises ==
    /\ pc = "fetching"
    /\ Handled("raised", FALSE, all_jobs, OnException(term))

Init ==
    /\ pc = "start"
    /\ app_id \in EnvValues
    /\ app_key \in EnvValues
    /\ max_results \in 0..MaxBudget
    /\ term = 1
    /\ page_num = 1
    /\ all_jobs = <<>>
    /\ nreq = 0
    /\ last = NoRequest
    /\ calls = 0
    /\ raw_in = <<>>
    /\ df = <<>>
    /\ err = "none"
    /\ file \in OldFiles
    /\ writes = 0
    /\ bpc = "idle"
    /\ batch = <<>>
    /\ out = NoOutcome
    /\ consumed = NotRead

Next ==
    \/ Construct
    \/ RequestPage
    \/ RequestEmpty
    \/ RequestHttpError
    \/ RequestRaises

Spec == Init /\ [][Next]_vars

\* ------------------------------------------------------------------------
\* LoopSpec: the loops of fetch_ai_jobs with a budget that lets a search
\* term reach its last page, on pages of one posting
\* ------------------------------------------------------------------------
MaxLoopBudget == 6  \* LoopSpec: max_results is drawn from 0..MaxLoopBudget

LoopPostings == {MLAcme1}

LoopInit ==
    /\ pc = "start"
    /\ app_id = "a1b2c3"
    /\ app_key = "a1b2c3"
    /\ max_results \in 0..MaxLoopBudget
    /\ term = 1
    /\ page_num = 1
    /\ all_jobs = <<>>
    /\ nreq = 0
    /\ last = NoRequest
    /\ calls = 0
    /\ raw_in = <<>>
    /\ df = <<>>
    /\ err = "none"
    /\ file = NoFile
    /\ writes = 0
    /\ bpc = "idle"
    /\ batch = <<>>
    /\ out = NoOutcome
    /\ consumed = NotRead

\* status 200, data['results'] holds one posting
RequestPageOfOne ==
    \E job \in LoopPostings : Page(<<job>>)

LoopNext ==
    \/ Construct
    \/ RequestPageOfOne
    \/ RequestEmpty
    \/ RequestHttpError
    \/ RequestRaises

\* Every request returns or raises within its timeout (timeout=10) and the
\* steps between two requests are finite, so a run that can take a step
\* takes one.
LoopSpec == LoopInit /\ [][LoopNext]_vars /\ WF_vars(LoopNext)

\* ------------------------------------------------------------------------
\* BatchSpec: process_jobs_data on an arbitrary batch
\* ------------------------------------------------------------------------
BatchInit ==
    /\ pc = "done"
    /\ app_id = None
    /\ app_key = None
    /\ max_results = 0
    /\ term = 1
    /\ page_num = 1
    /\ all_jobs = <<>>
    /\ nreq = 0
    /\ last = NoRequest
    /\ calls = 0
    /\ raw_in = <<>>
    /\ df = <<>>
    /\ err = "none"
    /\ file = NoFile
    /\ writes = 0
    /\ bpc = "ready"
    /\ batch \in SeqsUpTo(RawPostings, MaxBatch)
    /\ out = NoOutcome
    /\ consumed = NotRead

Process ==
    /\ bpc = "ready"
    /\ bpc' = "done"
    /\ out' = process_jobs_data(batch)
    /\ UNCHANGED <<batch, runVars, consumed>>

BatchNext == Process

BatchSpec == BatchInit /\ [][BatchNext]_vars

\* ------------------------------------------------------------------------
\* NormalizeSpec: process_jobs_data on a batch of one posting, to look at
\* the record the normalizer makes of it
\* ------------------------------------------------------------------------
NormalizeInit ==
    /\ pc = "done"
    /\ app_id = None
    /\ app_key = None
    /\ max_results = 0
    /\ term = 1
    /\ page_num = 1
    /\ all_jobs = <<>>
    /\ nreq = 0
    /\ last = NoRequest
    /\ calls = 0
    /\ raw_in = <<>>
    /\ df = <<>>
    /\ err = "none"
    /\ file = NoFile
    /\ writes = 0
    /\ bpc = "ready"
    /\ batch \in {<<p>> : p \in RichPostings}
    /\ out = NoOutcome
    /\ consumed = NotRead

NormalizeSpec == NormalizeInit /\ [][BatchNext]_vars

\* ------------------------------------------------------------------------
\* LocationSpec: process_jobs_data on one posting of LocationPostings
\* ------------------------------------------------------------------------
OnePosting(postings) ==
    /\ pc = "done"
    /\ app_id = None
    /\ app_key = None
    /\ max_results = 0
    /\ term = 1
    /\ page_num = 1
    /\ all_jobs = <<>>
    /\ nreq = 0
    /\ last = NoRequest
    /\ calls = 0
    /\ raw_in = <<>>
    /\ df = <<>>
    /\ err = "none"
    /\ file = NoFile
    /\ writes = 0
    /\ bpc = "ready"
    /\ batch \in {<<p>> : p \in postings}
    /\ out = NoOutcome
    /\ consumed = NotRead

LocationInit == OnePosting(LocationPostings)

LocationSpec == LocationInit /\ [][BatchNext]_vars

\* ------------------------------------------------------------------------
\* DateSpec: process_jobs_data on one posting of DatePostings
\* ------------------------------------------------------------------------
DateInit == OnePosting(DatePostings)

DateSpec == DateInit /\ [][BatchNext]_vars

\* ------------------------------------------------------------------------
\* SaveSpec: save_data(df) step by step, as a reader of the file sees it.
\* df.to_csv(filename, index=False) opens filename for writing, which
\* empties it, writes the header line and the rows to that same file, and
\* closes it; a write that fails leaves what was written so far.
\* ------------------------------------------------------------------------
SavedJobs == {ProcessedJob(p) : p \in {MLAcme1, DSAcme, MLGlobex}}

\* the non-empty deduplicated frames main() hands to save_data
SavedFrames ==
    {f \in NonEmptySeqsUpTo(SavedJobs, MaxBatch) : drop_duplicates(f) = f}

\* open(filename, 'w')
Opened == [exists |-> TRUE, header |-> <<>>, rows |-> <<>>]

SaveInit ==
    /\ pc = "save"
    /\ app_id = "a1b2c3"
    /\ app_key = "a1b2c3"
    /\ max_results = 0
    /\ term = 1
    /\ page_num = 1
    /\ all_jobs = <<>>
    /\ nreq = 0
    /\ last = NoRequest
    /\ calls = 1
    /\ raw_in = <<>>
    /\ df \in SavedFrames
    /\ err = "none"
    /\ file \in OldFiles
    /\ writes = 0
    /\ bpc = "idle"
    /\ batch = <<>>
    /\ out = NoOutcome
    /\ consumed = NotRead

saveVars ==
    <<app_id, app_key, max_results, term, page_num, all_jobs, nreq, last,
      calls, raw_in, df, batchVars, consumed>>

\* the file is opened for writing: its old contents are gone
OpenFile ==
    /\ pc = "save"
    /\ pc' = "writing"
    /\ file' = Opened
    /\ writes' = writes + 1
    /\ UNCHANGED <<err, saveVars>>

\* the file cannot be opened: the exception reaches the except clause of
\* main() and the old contents stay
OpenFails ==
    /\ pc = "save"
    /\ pc' = "done"
    /\ err' = "OSError"
    /\ writes' = writes + 1
    /\ UNCHANGED <<file, saveVars>>

WriteHeader ==
    /\ pc = "writing"
    /\ file.header = <<>>
    /\ file' = [file EXCEPT !.header = Columns]
    /\ UNCHANGED <<pc, err, writes, saveVars>>

WriteRow ==
    /\ pc = "writing"
    /\ file.header # <<>>
    /\ Len(file.rows) < Len(df)
    /\ file' = [file EXCEPT !.rows = Append(@, df[Len(@) + 1])]
    /\ UNCHANGED <<pc, err, writes, saveVars>>

\* all rows are written: the file is closed and save_data returns
CloseFile ==
    /\ pc = "writing"
    /\ file.header # <<>>
    /\ Len(file.rows) = Len(df)
    /\ pc' = "done"
    /\ UNCHANGED <<file, err, writes, saveVars>>

\* a write raises (disk full, I/O error) or the process is stopped: the
\* file keeps what was written so far
WriteFails ==
    /\ pc = "writing"
    /\ pc' = "done"
    /\ err' = "OSError"
    /\ UNCHANGED <<file, writes, saveVars>>

SaveNext ==
    \/ OpenFile
    \/ OpenFails
    \/ WriteHeader
    \/ WriteRow
    \/ CloseFile
    \/ WriteFails

SaveSpec == SaveInit /\ [][SaveNext]_vars

\* ------------------------------------------------------------------------
\* ConsumeSpec: the readers of the dataset file, each run once on a file
\* ------------------------------------------------------------------------
Raised(e) == [k |-> "raised", error |-> e, status |-> 0, jobs |-> 0]
Returned(n) == [k |-> "returned", error |-> "", status |-> 0, jobs |-> n]
Responded(code, n) ==
    [k |-> "responded", error |-> "", status |-> code, jobs |-> n]

\* the header line and zero rows
HeaderOnly == [exists |-> TRUE, header |-> Columns, rows |-> <<>>]

\* pd.read_csv('live_uk_ai_jobs.csv'): the exception it raises, "" if none
read_csv_error(f) ==
    IF ~f.exists THEN "FileNotFoundError"
    ELSE IF f.header = <<>> THEN "EmptyDataError"
    ELSE ""

\* generate_ai_context(): analyze_jobs_data() reads the file; of zero rows
\* df['salary_avg'].mean() is NaN, and int(NaN) in the f-string raises.
generate_ai_context(f) ==
    IF read_csv_error(f) # "" THEN Raised(read_csv_error(f))
    ELSE IF f.rows = <<>> THEN Raised("ValueError")
    ELSE Returned(Len(f.rows))

\* rows of company c
JobCount(rows, c) == Cardinality({i \in 1..Len(rows) : rows[i].company = c})

\* company_sentiment[company_sentiment['job_count'] >= 2]
RankedCompanies(rows) ==
    {rows[i].company : i \in {j \in 1..Len(rows) :
                                JobCount(rows, rows[j].company) >= 2}}

\* create_company_sentiment_analysis(): of zero rows sentiment_data is [],
\* pd.DataFrame([]) has no column and groupby('company') raises KeyError;
\* with no company of two jobs create_sentiment_ranking takes max() of an
\* empty sequence.
create_company_sentiment_analysis(f) ==
    IF read_csv_error(f) # "" THEN Raised(read_csv_error(f))
    ELSE IF f.rows = <<>> THEN Raised("KeyError")
    ELSE IF RankedCompanies(f.rows) = {} THEN Raised("ValueError")
    ELSE Returned(Cardinality(RankedCompanies(f.rows)))

\* handler.serve_jobs_data(): csv.DictReader over the file; a missing file
\* is answered with 404, a file without rows with an empty list.
serve_jobs_data(f) ==
    IF ~f.exists THEN Responded(404, 0) ELSE Responded(200, Len(f.rows))

DatasetFiles ==
    {NoFile, Opened, HeaderOnly} \cup {to_csv(f) : f \in SavedFrames}

ConsumeInit ==
    /\ pc = "done"
    /\ app_id = None
    /\ app_key = None
    /\ max_results = 0
    /\ term = 1
    /\ page_num = 1
    /\ all_jobs = <<>>
    /\ nreq = 0
    /\ last = NoRequest
    /\ calls = 0
    /\ raw_in = <<>>
    /\ df = <<>>
    /\ err = "none"
    /\ file \in DatasetFiles
    /\ writes = 0
    /\ bpc = "idle"
    /\ batch = <<>>
    /\ out = NoOutcome
    /\ consumed = NotRead

Consume(c, outcome) ==
    /\ consumed[c] = Pending
    /\ consumed' = [consumed EXCEPT ![c] = outcome]
    /\ UNCHANGED <<runVars, batchVars>>

ExportContext == Consume("context", generate_ai_context(file))
AnalyzeSentiment ==
    Consume("sentiment", create_company_sentiment_analysis(file))
ServeJobs == Consume("api", serve_jobs_data(file))

ConsumeNext ==
    \/ ExportContext
    \/ AnalyzeSentiment
    \/ ServeJobs

ConsumeSpec == ConsumeInit /\ [][ConsumeNext]_vars

\* ------------------------------------------------------------------------
\* Properties
\* ------------------------------------------------------------------------
Pair(j) == <<j.title, j.company>>
Request == nreq' = nreq + 1

\* The postings of a batch whose normalization does not raise, normalized,
\* in input order.
Survivors(raw) ==
    LET ok == SelectSeq(raw, LAMBDA j : ~NormalizeRaises(j))
    IN  [i \in 1..Len(ok) |-> ProcessedJob(ok[i])]

\* C1: process_jobs_data drops exactly the postings whose normalization
\* raises, keeps the others as Job records in input order, and the call never
\* ends with an exception because of a malformed record.
C1_BatchNeverAborts ==
    bpc = "done" => (~out.raised /\ out.processed = Survivors(batch))

\* C2 (as claimed): after a non-success status the accumulator is kept, the
\* term is left without retry, and the next term is requested at page 1.
C2_HttpErrorMovesToNextTerm ==
    [][/\ (Request /\ last'.outcome = "http_error") =>
            /\ all_jobs' = all_jobs
            /\ last'.term < NumTerms =>
                 (pc' = "fetching" /\ term' = last'.term + 1 /\ page_num' = 1)
       /\ (Request /\ last.outcome = "http_error") =>
            (last'.term = last.term + 1 /\ last'.page = 1)]_vars

\* C2 (amended): the same, the next term being requested when
\* max_results >= 1; with max_results = 0 the budget check after the inner
\* loop ends the fetch and no further request is issued.
C2_HttpErrorMovesToNextTermUnlessBudget ==
    [][/\ (Request /\ last'.outcome = "http_error") =>
            /\ all_jobs' = all_jobs
            /\ (last'.term < NumTerms /\ max_results >= 1) =>
                 (pc' = "fetching" /\ term' = last'.term + 1 /\ page_num' = 1)
            /\ max_results = 0 => pc' = "done"
       /\ (Request /\ last.outcome = "http_error") =>
            (last'.term = last.term + 1 /\ last'.page = 1)]_vars

C2_Witness ==
    /\ last.outcome = "http_error"
    /\ last.page >= 2
    /\ Len(all_jobs) > 0
    /\ pc = "fetching"
    /\ term = last.term + 1
    /\ page_num = 1

C4_EmptyPageMovesToNextTerm ==
    [][/\ (Request /\ last'.outcome = "empty") =>
            (last'.term < NumTerms =>
               (pc' = "fetching" /\ term' = last'.term + 1 /\ page_num' = 1))
       /\ (Request /\ last.outcome = "empty") =>
            (last'.term = last.term + 1 /\ last'.page = 1)]_vars

\* C4 (amended): the same, the next term being requested when
\* max_results >= 1; with max_results = 0 the fetch ends after the empty page.
C4_EmptyPageMovesToNextTermUnlessBudget ==
    [][/\ (Request /\ last'.outcome = "empty") =>
            /\ (last'.term < NumTerms /\ max_results >= 1) =>
                 (pc' = "fetching" /\ term' = last'.term + 1 /\ page_num' = 1)
            /\ max_results = 0 => pc' = "done"
       /\ (Request /\ last.outcome = "empty") =>
            (last'.term = last.term + 1 /\ last'.page = 1)]_vars

C4_Witness ==
    /\ last.outcome = "empty"
    /\ last.page = 1
    /\ last.term >= 2
    /\ pc = "fetching"
    /\ term = last.term + 1
    /\ page_num = 1

\* C5: once a page has brought the accumulator to max_results or more, no
\* further request is issued and fetch_ai_jobs is left.
C5_NoRequestAfterBudget ==
    [][/\ (last.outcome = "page" /\ Len(all_jobs) >= max_results) => ~Request
       /\ (last'.outcome = "page" /\ Len(all_jobs') >= max_results) =>
            pc' = "done"]_vars

C5_Witness ==
    /\ last.outcome = "page"
    /\ max_results >= 1
    /\ Len(all_jobs) >= max_results
    /\ last.term < NumTerms
    /\ last.page < MaxPages
    /\ pc = "done"

\* C6: every request but the first is issued after the inter-request delay
\* that follows the request before it.
C6_DelayBetweenRequests ==
    [][(Request /\ nreq >= 1) => last.slept]_vars

\* C7: with a missing or empty app id or app key the constructor raises
\* before any request, and the run fetches, normalizes and writes nothing.
C7_NoRunWithoutCredentials ==
    (app_id \in {None, ""} \/ app_key \in {None, ""}) =>
        /\ pc \in {"start", "done"}
        /\ pc = "done" => err = "ValueError"
        /\ nreq = 0
        /\ calls = 0
        /\ writes = 0

C7_Witness ==
    /\ pc = "done"
    /\ err = "ValueError"
    /\ app_id = "a1b2c3"
    /\ app_key = ""

\* C8: the frame returned by process_jobs_data holds no two records with the
\* same (title, company) pair.
C8_UniquePairs ==
    (bpc = "done" /\ ~out.raised) =>
        \A i, j \in 1..Len(out.df) : i < j => Pair(out.df[i]) # Pair(out.df[j])

C8_Witness ==
    /\ bpc = "done"
    /\ ~out.raised
    /\ Len(out.processed) = 3
    /\ Len(out.df) = 2
    /\ Pair(out.processed[1]) = Pair(out.processed[3])

\* C9: the returned frame is exactly the normalized records that have no
\* earlier record with the same (title, company) pair, in their input order;
\* of two postings with the same pair and different descriptions only the
\* first is left.
FirstIdx(s) ==
    {i \in 1..Len(s) : \A j \in 1..(i - 1) : Pair(s[j]) # Pair(s[i])}
NthOf(S, n) == CHOOSE i \in S : Cardinality({j \in S : j <= i}) = n

C9_FirstOccurrenceWins ==
    (bpc = "done" /\ ~out.raised) =>
        /\ Len(out.df) = Cardinality(FirstIdx(out.processed))
        /\ \A n \in 1..Len(out.df) :
               out.df[n] = out.processed[NthOf(FirstIdx(out.processed), n)]
        /\ batch = <<MLAcme1, MLAcme2>> => out.df = <<ProcessedJob(MLAcme1)>>

C9_Witness ==
    /\ bpc = "done"
    /\ batch = <<MLAcme1, DSAcme, MLAcme2>>
    /\ out.df = <<ProcessedJob(MLAcme1), ProcessedJob(DSAcme)>>

\* C10: deduplicating the returned frame again returns the same frame.
C10_DedupIdempotent ==
    (bpc = "done" /\ ~out.raised) => drop_duplicates(out.df) = out.df

C10_Witness ==
    /\ bpc = "done"
    /\ ~out.raised
    /\ Len(out.df) = 2
    /\ Len(out.processed) = 3
    /\ drop_duplicates(out.df) = out.df

\* ------------------------------------------------------------------------
\* Properties of the normalizer (NormalizeSpec)
\* ------------------------------------------------------------------------
Normalized == bpc = "done" /\ Len(batch) = 1 /\ Len(out.processed) = 1
Posting == batch[1]
Job == out.processed[1]
PostingTitle == Lower(GetText(Posting.title))
PostingDescription == Lower(GetText(Posting.description))
PostingText ==
    Lower(GetText(Posting.title) \o <<" ">> \o GetText(Posting.description))

\* C11: a Job record with both salary bounds has salary_min <= salary_max.
C11_SalaryOrdered ==
    Normalized =>
        ((Job.salary_min.k = "num" /\ Job.salary_max.k = "num") =>
            Job.salary_min.v <= Job.salary_max.v)

\* C12: salary_avg is (salary_min + salary_max) / 2 when both bounds are
\* present and None otherwise.
C12_SalaryAvg ==
    Normalized =>
        IF Job.salary_min.k = "num" /\ Job.salary_max.k = "num"
        THEN /\ Job.salary_avg.k = "num"
             /\ Job.salary_avg.den # 0
             /\ 2 * Job.salary_avg.num =
                    (Job.salary_min.v + Job.salary_max.v) * Job.salary_avg.den
        ELSE Job.salary_avg.k = "none"

C12_Witness ==
    /\ Normalized
    /\ Posting.salary_min = NoNum
    /\ Job.salary_min = Num(50000)
    /\ Job.salary_max = Num(80000)
    /\ Job.salary_avg = [k |-> "num", num |-> 130000, den |-> 2]

\* C13: category, experience_level and work_type of a Job record are always
\* one of their enumerated values.
C13_EnumeratedFields ==
    Normalized =>
        /\ Job.category \in {"Research", "Product & Management", "Specialized",
                             "Data Science", "Engineering"}
        /\ Job.experience_level \in {"Entry", "Mid", "Senior", "Lead",
                                     "Principal"}
        /\ Job.work_type \in {"Remote", "Hybrid", "On-site"}

C13_Witness ==
    /\ Normalized
    /\ Posting.title = MissingText
    /\ Job.category = "Engineering"
    /\ Job.experience_level = "Mid"
    /\ Job.work_type = "Hybrid"

\* The range the description gives by the priority of the three shapes
ShapeFull == Search(PostingDescription, "full")
ShapeK == Search(PostingDescription, "k")
ShapeBare == Search(PostingDescription, "bare")
FirstShapeIn(text) ==
    LET OrElse(shape, form) == IF shape.ok THEN shape ELSE Search(text, form)
    IN  OrElse(OrElse(Search(text, "full"), "k"), "bare")
FirstShape == FirstShapeIn(PostingDescription)
UpstreamBoth == Truthy(Posting.salary_min) /\ Truthy(Posting.salary_max)

\* the estimate table, by the first rule whose keyword is in the title
ExpectedEstimateOf(title) ==
    IF Contains(title, SeniorTitles[1]) \/ Contains(title, SeniorTitles[2])
    THEN <<70000, 110000>>
    ELSE IF Contains(title, PrincipalTitles[1])
            \/ Contains(title, PrincipalTitles[2])
    THEN <<120000, 180000>>
    ELSE IF Contains(title, JuniorTitles[1])
            \/ Contains(title, JuniorTitles[2])
    THEN <<35000, 55000>>
    ELSE <<50000, 75000>>
ExpectedEstimate == ExpectedEstimateOf(PostingTitle)
JobSalary == <<Job.salary_min, Job.salary_max>>
EstimateUsed ==
    LET Used(estimate) == JobSalary = <<Num(estimate[1]), Num(estimate[2])>>
    IN  Used(ExpectedEstimate)
ScenarioA ==
    (~UpstreamBoth /\ GetText(Posting.description) = SalarySegments[1]) =>
        /\ JobSalary = <<Num(50000), Num(80000)>>
        /\ Job.salary_avg = [k |-> "num", num |-> 130000, den |-> 2]

\* C14 (as claimed): both upstream bounds are returned unchanged; otherwise
\* the first of the shapes full, k, bare that matches the description gives
\* both bounds, and the title estimate is used only when none matches.
C14_SalaryPriority ==
    Normalized =>
        LET Priority(shape) ==
                /\ UpstreamBoth =>
                       JobSalary = <<Posting.salary_min, Posting.salary_max>>
                /\ (~UpstreamBoth /\ shape.ok) =>
                       JobSalary = <<Num(shape.min), Num(shape.max)>>
                /\ (~UpstreamBoth /\ ~shape.ok) => EstimateUsed
                /\ ScenarioA
        IN  Priority(FirstShape)

\* C14 (amended): the same, except that a first matching shape with a zero
\* bound gives no range: the title estimate then replaces both bounds.
C14_SalaryPriorityNonZero ==
    Normalized =>
        LET Priority(shape) ==
                /\ UpstreamBoth =>
                       JobSalary = <<Posting.salary_min, Posting.salary_max>>
                /\ (~UpstreamBoth /\ shape.ok
                      /\ shape.min # 0 /\ shape.max # 0) =>
                       JobSalary = <<Num(shape.min), Num(shape.max)>>
                /\ (~UpstreamBoth /\ shape.ok
                      /\ (shape.min = 0 \/ shape.max = 0)) => EstimateUsed
                /\ (~UpstreamBoth /\ ~shape.ok) => EstimateUsed
                /\ ScenarioA
        IN  Priority(FirstShape)

\* the k form comes first in the text, the full form wins
C14_Witness ==
    /\ Normalized
    /\ ~UpstreamBoth
    /\ GetText(Posting.description) = SalarySegments[2] \o SalarySegments[1]
    /\ ShapeK.ok
    /\ JobSalary = <<Num(50000), Num(80000)>>

\* C15: when neither the upstream fields nor the description give a range,
\* the bounds are the estimate of the first title rule that matches, in the
\* order senior|lead, principal|head of, junior|graduate, else.
C15_TitleEstimate ==
    (Normalized /\ ~UpstreamBoth /\ ~FirstShape.ok) => EstimateUsed

\* a title with both "principal" and "lead"
C15_Witness ==
    /\ Normalized
    /\ ~UpstreamBoth
    /\ ~FirstShape.ok
    /\ Posting.title = Text(Principal_Team_Lead)
    /\ JobSalary = <<Num(70000), Num(110000)>>

\* C16: "Senior Data Scientist" with no salary fields and no salary text is
\* normalized to 70000-110000 and category "Data Science".
C16_SeniorDataScientist ==
    (/\ Normalized
     /\ Posting.title = Text(Senior_Data_Scientist)
     /\ Posting.salary_min = NoNum
     /\ Posting.salary_max = NoNum
     /\ ~FirstShape.ok) =>
        /\ JobSalary = <<Num(70000), Num(110000)>>
        /\ Job.category = "Data Science"

\* C17: the category is that of the first rule, in the order Research,
\* Product & Management, Specialized, Data Science, with a term in the
\* lower-cased title + ' ' + description; Engineering when there is none.
C17_CategoryPriority ==
    Normalized =>
        LET FirstRule(text) ==
                IF AnyIn(text, ResearchTerms) THEN "Research"
                ELSE IF AnyIn(text, ProductTerms) THEN "Product & Management"
                ELSE IF AnyIn(text, SpecializedTerms) THEN "Specialized"
                ELSE IF AnyIn(text, DataScienceTerms) THEN "Data Science"
                ELSE "Engineering"
        IN  Job.category = FirstRule(PostingText)

\* a Research term together with a Data Science term
C17_Witness ==
    /\ Normalized
    /\ AnyIn(PostingText, ResearchTerms)
    /\ AnyIn(PostingText, DataScienceTerms)
    /\ AnyIn(PostingText, SpecializedTerms)
    /\ Job.category = "Research"

\* C18: the experience level is the highest of Principal > Lead > Senior >
\* Entry that has a term in the text; Mid when there is none.
C18_ExperiencePriority ==
    Normalized =>
        LET Highest(text) ==
                IF AnyIn(text, PrincipalTerms) THEN "Principal"
                ELSE IF AnyIn(text, LeadTerms) THEN "Lead"
                ELSE IF AnyIn(text, SeniorTerms) THEN "Senior"
                ELSE IF AnyIn(text, EntryTerms) THEN "Entry"
                ELSE "Mid"
        IN  Job.experience_level = Highest(PostingText)

\* both "senior" and "principal"
C18_Witness ==
    /\ Normalized
    /\ Contains(PostingText, SeniorTerms[1])
    /\ Contains(PostingText, PrincipalTerms[1])
    /\ Job.experience_level = "Principal"

\* C19: remote with a hybrid term is Hybrid, remote alone Remote; without a
\* remote term an on-site term is On-site, anything else Hybrid.
C19_WorkType ==
    Normalized =>
        LET Table(remote, hybrid, onsite) ==
                /\ (remote /\ hybrid) => Job.work_type = "Hybrid"
                /\ (remote /\ ~hybrid) => Job.work_type = "Remote"
                /\ (~remote /\ onsite) => Job.work_type = "On-site"
                /\ (~remote /\ ~onsite) => Job.work_type = "Hybrid"
            Terms(text) ==
                Table(AnyIn(text, RemoteTerms), AnyIn(text, HybridTerms),
                      AnyIn(text, OnSiteTerms))
        IN  Terms(PostingDescription)

\* no remote term, a hybrid term and an on-site term
C19_Witness ==
    /\ Normalized
    /\ ~AnyIn(PostingDescription, RemoteTerms)
    /\ AnyIn(PostingDescription, HybridTerms)
    /\ AnyIn(PostingDescription, OnSiteTerms)
    /\ Job.work_type = "On-site"

\* C20: the skill list has at most 6 entries, no duplicate, and is the first
\* 6 (or fewer) vocabulary entries found in the description, as title-cased
\* tokens in vocabulary order; required_skills is that list joined.
SkillIdxIn(text) ==
    {n \in 1..Len(skill_keywords) : Contains(text, skill_keywords[n])}
SkillIdx == SkillIdxIn(PostingDescription)
SkillList == extract_skills(GetText(Posting.description))

C20_Skills ==
    Normalized =>
        LET FirstSix(list, idx) ==
                /\ Len(list) <= 6
                /\ \A a, b \in 1..Len(list) : a # b => list[a] # list[b]
                /\ Len(list) = Min(6, Cardinality(idx))
                /\ \A n \in 1..Len(list) :
                       list[n] = TitleCase(skill_keywords[NthOf(idx, n)])
                /\ Job.required_skills = Join(<<",", " ">>, list)
        IN  FirstSix(SkillList, SkillIdx)

\* more than 6 entries found; "sql" comes first in the text, "Python" in
\* the list
C20_Witness ==
    /\ Normalized
    /\ Cardinality(SkillIdx) > 6
    /\ Len(SkillList) = 6
    /\ GetText(Posting.description) = KeywordSegments[2] \o KeywordSegments[1]
    /\ SkillList[1] = <<"P", "y", "t", "h", "o", "n">>
    /\ SkillList[4] = <<"S", "c", "i", "k", "i", "t", "-", "L", "e", "a", "r", "n">>

\* ------------------------------------------------------------------------
\* Properties of clean_location (LocationSpec)
\* ------------------------------------------------------------------------
Kept == bpc = "done" /\ Len(batch) = 1 /\ Len(out.processed) = 1
RawLocation == LocationName(batch[1])
JobLocation == out.processed[1].location
IsKey(s) == \E n \in 1..Len(LocationKeys) : LocationKeys[n] = s
ValueOf(s) == LocationValues[CHOOSE n \in 1..Len(LocationKeys) : LocationKeys[n] = s]

\* C21: the location of a Job record is a fixed point of clean_location:
\* clean_location(clean_location(x)) = clean_location(x) for every x.
C21_LocationStable ==
    Kept => clean_location(Text(JobLocation)) = JobLocation

\* C22 (as claimed): a location equal to a key of the table gives the key's
\* value, every other non-empty string is returned unchanged, an empty or
\* missing location gives "UK".
C22_ExactLookup ==
    Kept =>
        IF RawLocation.k # "str" \/ RawLocation.v = <<>> THEN JobLocation = UK
        ELSE IF IsKey(RawLocation.v) THEN JobLocation = ValueOf(RawLocation.v)
        ELSE JobLocation = RawLocation.v

\* C22 (amended): the same of the location with its leading and trailing
\* white space removed; a location of white space only gives the empty
\* string.
C22_StrippedLookup ==
    Kept =>
        LET Stripped(s) ==
                /\ s = <<>> \/ (~IsSpace(s[1]) /\ ~IsSpace(s[Len(s)]))
                /\ \E l, r \in 0..Len(RawLocation.v) :
                       /\ l + Len(s) + r = Len(RawLocation.v)
                       /\ \A i \in 1..Len(RawLocation.v) :
                              IF i <= l \/ i > l + Len(s)
                              THEN IsSpace(RawLocation.v[i])
                              ELSE RawLocation.v[i] = s[i - l]
                /\ JobLocation = IF IsKey(s) THEN ValueOf(s) ELSE s
        IN  IF RawLocation.k # "str" \/ RawLocation.v = <<>>
            THEN JobLocation = UK
            ELSE \E l \in 0..Len(RawLocation.v) :
                     \E n \in 0..(Len(RawLocation.v) - l) :
                         Stripped(SubSeq(RawLocation.v, l + 1, l + n))

\* a key with white space on both sides
C22_Witness ==
    /\ Kept
    /\ RawLocation = Text(<<" ">> \o LocationKeys[1] \o <<"\t">>)
    /\ JobLocation = LocationValues[1]

\* ------------------------------------------------------------------------
\* Properties of parse_date (DateSpec)
\* ------------------------------------------------------------------------
Created == batch[1].created
WellFormed == Range(GoodDates) \cup Concat3(GoodDates, GoodTimes, GoodZones)
Unparseable == Created.k # "str" \/ Created.v \notin WellFormed

\* C23: a posting whose creation date is missing or unparseable is kept,
\* nothing is raised, its posted_date is the current time minus one day and
\* its other fields are those of the same posting with a well-formed date;
\* a well-formed date is parsed.
C23_DateDefault ==
    (bpc = "done" /\ Len(batch) = 1) =>
        /\ ~out.raised
        /\ Len(out.processed) = 1
        /\ IF Unparseable
           THEN out.processed[1] =
                    [ProcessedJob(WithCreated(Text(GoodDates[1])))
                        EXCEPT !.posted_date = NowMinusDays(1)]
           ELSE /\ out.processed[1].posted_date.k = "parsed"
                /\ out.processed[1].posted_date.at.date \in
                       {<<2025, 1, 15>>, <<2024, 2, 29>>}

\* an unparseable string, and the record made of it
C23_Witness ==
    /\ bpc = "done"
    /\ Created = Text(BadDates[1] \o GoodTimes[1] \o GoodZones[2])
    /\ Len(out.processed) = 1
    /\ out.processed[1].posted_date = NowMinusDays(1)
    /\ out.processed[1].title = ML_Engineer

\* ------------------------------------------------------------------------
\* Properties of the saved file (Spec)
\* ------------------------------------------------------------------------

\* C24: after every completed fetch cycle, whatever the number of jobs it
\* produced, the dataset file holds exactly the deduplicated frame of that
\* run and no row of an earlier run.
C24_FullSnapshot ==
    (pc = "done" /\ calls = 1 /\ err = "none") => file = to_csv(df)

\* ------------------------------------------------------------------------
\* Properties of save_data (SaveSpec)
\* ------------------------------------------------------------------------

\* C25: while save_data runs, and after it failed midway, the dataset file
\* is either a complete earlier snapshot or the complete new one.
C25_NoPartialFile ==
    file \in OldFiles \cup {to_csv(df)}

\* ------------------------------------------------------------------------
\* Properties of the readers (ConsumeSpec)
\* ------------------------------------------------------------------------

\* C26: on a dataset file of the header row and zero Job rows the context
\* export, the company sentiment analysis and the /api/jobs handler each
\* complete without raising an error.
C26_EmptyDatasetTolerated ==
    file = HeaderOnly =>
        \A c \in Consumers : consumed[c].k # "raised"

\* ------------------------------------------------------------------------
\* Properties of the loops of fetch_ai_jobs (LoopSpec)
\* ------------------------------------------------------------------------

C28_BudgetOvershoot ==
    /\ max_results >= 1 => Len(all_jobs) < max_results + MaxPageLen
    /\ (max_results >= 1 /\ pc = "fetching") => Len(all_jobs) < max_results
    /\ (pc = "done" /\ calls = 1) => (raw_in = all_jobs /\ nreq >= 1)

\* the last page took the accumulator past the budget
C28_Witness ==
    /\ pc = "done"
    /\ calls = 1
    /\ max_results >= 1
    /\ last.outcome = "page"
    /\ Len(raw_in) > max_results
    /\ Len(raw_in) = max_results + MaxPageLen - 1

\* ------------------------------------------------------------------------
\* Properties of the salary bounds of a record (NormalizeSpec)
\* ------------------------------------------------------------------------
ShapeUsable(shape) == shape.ok /\ shape.min # 0 /\ shape.max # 0
UpstreamOne == Truthy(Posting.salary_min) # Truthy(Posting.salary_max)

\* C29: every Job record has a salary_min and a salary_max that are numbers
\* other than zero, hence a salary_avg; when the upstream bounds are not
\* both there and the description gives no range, or one with a zero bound,
\* both bounds are the title estimate.
C29_SalaryNeverAbsent ==
    Normalized =>
        LET Filled(shape) ==
                (~UpstreamBoth /\ ~ShapeUsable(shape)) => EstimateUsed
        IN  /\ Job.salary_min.k = "num" /\ Job.salary_min.v # 0
            /\ Job.salary_max.k = "num" /\ Job.salary_max.v # 0
            /\ Job.salary_avg.k = "num"
            /\ Filled(FirstShape)

\* a zero upstream bound and a range with a zero bound in the description
C29_Witness ==
    /\ Normalized
    /\ Posting.salary_min = Num(0)
    /\ ShapeFull.ok
    /\ ShapeFull.min = 0
    /\ EstimateUsed
    /\ Job.salary_avg.k = "num"

\* C30 (as claimed): with exactly one upstream bound, both bounds are the
\* range found in the description, or the title estimate when the
\* description has none.
C30_PartialUpstreamReplaced ==
    (Normalized /\ UpstreamOne) =>
        LET Replaced(shape) ==
                IF shape.ok
                THEN JobSalary = <<Num(shape.min), Num(shape.max)>>
                ELSE EstimateUsed
        IN  Replaced(FirstShape)

\* C30 (amended): with exactly one upstream bound, both bounds are the range
\* found in the description when neither of its bounds is zero, and the
\* title estimate otherwise; the upstream bound is in neither.
C30_PartialUpstreamReplacedNonZero ==
    (Normalized /\ UpstreamOne) =>
        LET Replaced(shape) ==
                IF ShapeUsable(shape)
                THEN JobSalary = <<Num(shape.min), Num(shape.max)>>
                ELSE EstimateUsed
        IN  Replaced(FirstShape)

\* the upstream minimum is dropped for the range of the description
C30_Witness ==
    /\ Normalized
    /\ Posting.salary_min = Num(40000)
    /\ Posting.salary_max = NoNum
    /\ FirstShape.ok
    /\ JobSalary = <<Num(50000), Num(80000)>>

====
